---- MODULE Spec2Model ----
(***************************************************************************)
(* PrecisionStepTracker (src/StepSync/app.js): the step detector driven by *)
(* devicemotion events.                                                    *)
(*                                                                         *)
(* Units.  Acceleration components and magnitudes are fixed-point tenths   *)
(* of m/s^2 (9.8 is 98, 6 is 60).  Confidence is in tenths (0.4 is 4, 0.7  *)
(* is 7); the eight sums 0.4/0.3/0.3 can form are exact in IEEE doubles    *)
(* and compare with the literal 0.7 exactly as the tenths compare with 7.  *)
(* Time is in milliseconds, as Date.now() returns it.  The doubles that    *)
(* are no numbers on that grid, NaN and +-Infinity, are the integers NaN   *)
(* and +-Infinity, far off the grid; the arithmetic of detectStep treats   *)
(* them as IEEE 754 does.                                                  *)
(*                                                                         *)
(* Clock.  Date.now() is the system wall clock: `now` is its current       *)
(* reading.  It advances (Tick), and while one handler runs to completion  *)
(* it advances by 0..MaxDrift ms between the handler's two reads (lines 70 *)
(* and 122).  SpecClock adds a system clock that is set back between two   *)
(* events (ClockAdjust).                                                   *)
(***************************************************************************)
EXTENDS Integers, Sequences, FiniteSets

\* ---------------------------------------------------------------- bounds
MaxTime == 502          \* latest clock reading
MaxDrift == 1           \* ms that may elapse between the two clock reads
MaxSamples == 2         \* motion events processed in Spec
MaxClockSamples == 2    \* motion events processed in SpecClock
MaxRingSamples == 11    \* motion events processed in SpecRing
MaxMalformedSamples == 2 \* motion events processed in SpecMalformed
MaxAppSamples == 2      \* motion events processed in SpecApp
MaxSteps == 3           \* 'Add Step Manually' is clicked while steps is below

\* ------------------------------------------------------ program constants
stepCooldown == 250
confidenceThreshold == 7
movementThreshold == 98
verticalThreshold == 60
wMovement == 4
wInterval == 3
wVertical == 3
historyLimit == 10
defaultDailyGoal == 10000
defaultUserWeight == 70

\* IEEE doubles off the fixed-point grid (-Infinity is 0 - Infinity).
Infinity == 1000000
NaN == 2000000

\* ----------------------------------------------------------------- inputs
\* Wall-clock readings: the cooldown boundaries and their neighbours.
\* (a multiple of the cooldown, plus at most one tick and the drift).
Times == { t \in 0..MaxTime : t % stepCooldown <= MaxDrift + 1 }

\* SpecRing: the page loads at 0 and the first instant past the cooldown.
RingTimes == { 0, stepCooldown + 1 }

\* event.acceleration || event.accelerationIncludingGravity, as <<x, y, z>>:
\* at rest on the threshold, movement only, vertical only (negative y),
\* movement and vertical.
Accels == { <<0, 0, 98>>, <<0, 0, 99>>, <<0, -61, 0>>, <<0, 100, 99>> }

\* SpecClock and SpecRing: at rest, and a full step signature.
FewAccels == { <<0, 0, 98>>, <<0, 100, 99>> }

\* SpecMalformed: samples with a component that is not finite, and a full
\* step signature.
MalformedAccels ==
    { <<0, 100, 99>>, <<NaN, 100, 99>>, <<0, NaN, 99>>, <<0, Infinity, 0>>,
      <<0, 0 - Infinity, 0>>, <<Infinity, 0, 0>> }

\* What the user may have typed into the goal and the weight field.
InputTexts == { "", "abc", "0", "-5", "1e3" }

\* What localStorage holds under 'stepTrackerSettings' when the page loads:
\* nothing, or the settings an earlier session saved.
InitialStorage ==
    { <<>>, << [steps |-> 5, dailyGoal |-> 8000, userWeight |-> 60] >> }

\* ------------------------------------------------------------------ state
VARIABLES
    now,             \* the wall clock Date.now() reads
    steps,           \* this.steps
    dailyGoal,       \* this.dailyGoal
    userWeight,      \* this.userWeight
    lastPeakTime,    \* detectionState.lastPeakTime
    stepSignatures,  \* detectionState.stepSignatures
    storage,         \* localStorage item 'stepTrackerSettings' (<<>> = absent)
    calls            \* one record per processMotionData call that ran detectStep

vars == <<now, steps, dailyGoal, userWeight, lastPeakTime, stepSignatures,
          storage, calls>>

\* ---------------------------------------------------------------- helpers
Abs(v) == IF v = NaN THEN NaN ELSE IF v < 0 THEN 0 - v ELSE v

\* v * v on doubles: NaN stays NaN, an infinity squares to +Infinity.
Square(v) ==
    IF v = NaN THEN NaN ELSE IF Abs(v) = Infinity THEN Infinity ELSE v * v

\* a + b on doubles that are not negative.
Plus(a, b) ==
    IF a = NaN \/ b = NaN THEN NaN
    ELSE IF a = Infinity \/ b = Infinity THEN Infinity
    ELSE a + b

\* a > b on doubles, b a number: every comparison with NaN is false.
Greater(a, b) == a # NaN /\ a > b

\* Math.sqrt on the fixed-point grid, rounded up, so that a comparison
\* `sqrt(n) > k` with an integer k is decided as it is over the reals.
Sqrt(n) ==
    IF n = NaN \/ n = Infinity THEN n
    ELSE CHOOSE r \in 0..(n + 1) :
             r * r >= n /\ (r = 0 \/ (r - 1) * (r - 1) < n)

Last(s) == s[Len(s)]

\* -------------------------------------------------------------- detectStep
Magnitude(x, y, z) == Sqrt(Plus(Plus(Square(x), Square(y)), Square(z)))

\* The subtraction with its operands swapped.
TimeSinceLastStepSwapped(currentTime, peak) == peak - currentTime

\* The distance between the two readings, whichever came first.
TimeSinceLastStepAbs(currentTime, peak) == Abs(currentTime - peak)

TimeSinceLastStep(currentTime, peak) == currentTime - peak

\* A movement test that lets the threshold itself through.
IsSignificantMovementInclusive(magnitude) ==
    magnitude # NaN /\ magnitude >= movementThreshold

IsSignificantMovement(magnitude) == Greater(magnitude, movementThreshold)

\* A cooldown that ends one millisecond early.
IsValidStepIntervalInclusive(timeSinceLastStep) ==
    timeSinceLastStep >= stepCooldown

IsValidStepInterval(timeSinceLastStep) == timeSinceLastStep > stepCooldown

VerticalMovement(y) == Abs(y)

IsVerticalStep(verticalMovement) ==
    Greater(verticalMovement, verticalThreshold)

\* The interval term added with the movement weight.
ConfidenceWrong(isSignificantMovement, isValidStepInterval, isVerticalStep) ==
    (IF isSignificantMovement THEN wMovement ELSE 0)
  + (IF isValidStepInterval THEN wMovement ELSE 0)
  + (IF isVerticalStep THEN wVertical ELSE 0)

Confidence(isSignificantMovement, isValidStepInterval, isVerticalStep) ==
    (IF isSignificantMovement THEN wMovement ELSE 0)
  + (IF isValidStepInterval THEN wInterval ELSE 0)
  + (IF isVerticalStep THEN wVertical ELSE 0)

\* A history that records only the samples that scored.
PushSignatureScoredOnly(signatures, signature) ==
    IF signature.confidence > 0 THEN Append(signatures, signature)
    ELSE signatures

PushSignature(signatures, signature) == Append(signatures, signature)

\* A limit that is off by one.
LimitHistoryOffByOne(signatures) ==
    IF Len(signatures) > historyLimit + 1 THEN Tail(signatures)
    ELSE signatures

\* pop() where shift() was meant: the newest entry goes, not the oldest.
LimitHistoryDropNewest(signatures) ==
    IF Len(signatures) > historyLimit
    THEN SubSeq(signatures, 1, Len(signatures) - 1)
    ELSE signatures

LimitHistory(signatures) ==
    IF Len(signatures) > historyLimit THEN Tail(signatures) ELSE signatures

\* The decision taken on the confidence alone, threshold included.
StepDetectedNoGate(confidence, isValidStepInterval) ==
    confidence >= confidenceThreshold

\* A confidence test that lets the threshold itself through.
StepDetectedInclusive(confidence, isValidStepInterval) ==
    confidence >= confidenceThreshold /\ isValidStepInterval

StepDetected(confidence, isValidStepInterval) ==
    confidence > confidenceThreshold /\ isValidStepInterval

\* detectStep measuring the interval from the newest history entry (the last
\* sample) where the last step was meant.
DetectStepFromHistory(x, y, z, currentTime, peak, signatures) ==
    LET magnitude == Magnitude(x, y, z)
        lastSeen == IF signatures = <<>> THEN peak
                    ELSE Last(signatures).timestamp
        timeSinceLastStep == TimeSinceLastStep(currentTime, lastSeen)
        isSignificantMovement == IsSignificantMovement(magnitude)
        isValidStepInterval == IsValidStepInterval(timeSinceLastStep)
        verticalMovement == VerticalMovement(y)
        isVerticalStep == IsVerticalStep(verticalMovement)
        confidence == Confidence(isSignificantMovement, isValidStepInterval,
                                 isVerticalStep)
        signature == [magnitude |-> magnitude,
                      verticalMovement |-> verticalMovement,
                      confidence |-> confidence,
                      timestamp |-> currentTime]
        pushed == PushSignature(signatures, signature)
    IN  [signature |-> signature,
         pushed |-> pushed,
         stepSignatures |-> LimitHistory(pushed),
         stepDetected |-> StepDetected(confidence, isValidStepInterval)]

\* The whole of detectStep on the detection state (peak, signatures): the
\* signature it stores, the array right after push (what line 113 reads the
\* length of), the array it leaves behind and the value it returns.
DetectStep(x, y, z, currentTime, peak, signatures) ==
    LET magnitude == Magnitude(x, y, z)
        timeSinceLastStep == TimeSinceLastStep(currentTime, peak)
        isSignificantMovement == IsSignificantMovement(magnitude)
        isValidStepInterval == IsValidStepInterval(timeSinceLastStep)
        verticalMovement == VerticalMovement(y)
        isVerticalStep == IsVerticalStep(verticalMovement)
        confidence == Confidence(isSignificantMovement, isValidStepInterval,
                                 isVerticalStep)
        signature == [magnitude |-> magnitude,
                      verticalMovement |-> verticalMovement,
                      confidence |-> confidence,
                      timestamp |-> currentTime]
        pushed == PushSignature(signatures, signature)
    IN  [signature |-> signature,
         pushed |-> pushed,
         stepSignatures |-> LimitHistory(pushed),
         stepDetected |-> StepDetected(confidence, isValidStepInterval)]

\* ------------------------------------------------------------ persistence
SaveSettings(s, goal, weight) ==
    << [steps |-> s, dailyGoal |-> goal, userWeight |-> weight] >>

\* settings.field || default: 0 is falsy, so a stored 0 yields the default.
OrDefault(v, default) == IF v = 0 THEN default ELSE v

LoadSettings(item) ==
    IF item = <<>>
    THEN [steps |-> 0, dailyGoal |-> defaultDailyGoal,
          userWeight |-> defaultUserWeight]
    ELSE [steps |-> OrDefault(item[1].steps, 0),
          dailyGoal |-> OrDefault(item[1].dailyGoal, defaultDailyGoal),
          userWeight |-> OrDefault(item[1].userWeight, defaultUserWeight)]

\* ------------------------------------------------------------------- Init
\* Arguments a caller may hand to `new PrecisionStepTracker(...)`: none (what
\* line 231 does), the defaults spelled out, a confidenceThreshold above 1,
\* one below 0, a NaN threshold and an infinite cooldown.
NoConfig == <<>>

Configs ==
    { NoConfig,
      << [stepCooldown |-> 250, confidenceThreshold |-> 7] >>,
      << [stepCooldown |-> 250, confidenceThreshold |-> 11] >>,
      << [stepCooldown |-> 250, confidenceThreshold |-> 0 - 1] >>,
      << [stepCooldown |-> 250, confidenceThreshold |-> NaN] >>,
      << [stepCooldown |-> Infinity, confidenceThreshold |-> 7] >> }

\* constructor(): it declares no parameter, reads no argument and has no
\* throw; detectionState is the literal of lines 25-32 whatever is passed.
Constructor(config) ==
    [threw |-> FALSE,
     detectionState |-> [lastPeakTime |-> 0,
                         stepCooldown |-> stepCooldown,
                         confidenceThreshold |-> confidenceThreshold,
                         stepSignatures |-> <<>>]]

\* new PrecisionStepTracker(): the fields of the constructor, then
\* loadSettings() over whatever localStorage holds.
Init ==
    /\ now \in Times
    /\ storage \in InitialStorage
    /\ steps = LoadSettings(storage).steps
    /\ dailyGoal = LoadSettings(storage).dailyGoal
    /\ userWeight = LoadSettings(storage).userWeight
    /\ lastPeakTime = Constructor(NoConfig).detectionState.lastPeakTime
    /\ stepSignatures = Constructor(NoConfig).detectionState.stepSignatures
    /\ calls = <<>>

InitRing ==
    /\ Init
    /\ now = 0
    /\ storage = <<>>

\* ---------------------------------------------------------------- actions
\* Time passes: the wall clock reads a later value.
Tick(t) ==
    /\ t > now
    /\ now' = t
    /\ UNCHANGED <<steps, dailyGoal, userWeight, lastPeakTime, stepSignatures,
                   storage, calls>>

\* The system clock is set back (Date.now() is not monotonic).
ClockAdjust(t) ==
    /\ t < now
    /\ now' = t
    /\ UNCHANGED <<steps, dailyGoal, userWeight, lastPeakTime, stepSignatures,
                   storage, calls>>

\* recordStep() that saves before it counts the step.
RecordStepSaveFirst(drift) ==
    /\ now' = now + drift
    /\ steps' = steps + 1
    /\ lastPeakTime' = now'
    /\ storage' = SaveSettings(steps, dailyGoal, userWeight)
    /\ UNCHANGED <<dailyGoal, userWeight>>

\* recordStep() without this.steps++.
RecordStepNoIncrement(drift) ==
    /\ now' = now + drift
    /\ steps' = steps
    /\ lastPeakTime' = now'
    /\ storage' = SaveSettings(steps', dailyGoal, userWeight)
    /\ UNCHANGED <<dailyGoal, userWeight>>

\* recordStep(): a second Date.now(), `drift` ms after the first.
RecordStep(drift) ==
    /\ now' = now + drift
    /\ steps' = steps + 1
    /\ lastPeakTime' = now'
    /\ storage' = SaveSettings(steps', dailyGoal, userWeight)
    /\ UNCHANGED <<dailyGoal, userWeight>>

\* processMotionData(event) for an event that carries an acceleration
\* (without one the handler returns at line 66 and nothing changes).
ProcessMotionData(acceleration, drift) ==
    LET x == acceleration[1]
        y == acceleration[2]
        z == acceleration[3]
        currentTime == now
        d == DetectStep(x, y, z, currentTime, lastPeakTime, stepSignatures)
    IN  /\ stepSignatures' = d.stepSignatures
        /\ calls' = Append(calls,
                      [x |-> x, y |-> y, z |-> z,
                       currentTime |-> currentTime,
                       peakBefore |-> lastPeakTime,
                       signature |-> d.signature,
                       lengthAfterPush |-> Len(d.pushed),
                       stepDetected |-> d.stepDetected])
        /\ IF d.stepDetected
           THEN RecordStep(drift)
           ELSE /\ drift = 0
                /\ UNCHANGED <<now, steps, dailyGoal, userWeight,
                               lastPeakTime, storage>>

\* parseInt(text) on the texts of InputTexts: the leading integer, NaN
\* without one ("1e3" stops at the e).
ParseInt(text) ==
    CASE text = "0" -> 0
      [] text = "-5" -> 0 - 5
      [] text = "1e3" -> 1
      [] OTHER -> NaN

\* parseFloat(text) on the texts of InputTexts: the leading decimal number,
\* exponent included, NaN without one.
ParseFloat(text) ==
    CASE text = "0" -> 0
      [] text = "-5" -> 0 - 5
      [] text = "1e3" -> 1000
      [] OTHER -> NaN

\* A recordStep() where a manual step was meant: the click counts the step,
\* restarts the cooldown and saves.
ManualStepRecorded ==
    /\ steps' = steps + 1
    /\ lastPeakTime' = now
    /\ storage' = SaveSettings(steps', dailyGoal, userWeight)
    /\ UNCHANGED <<now, dailyGoal, userWeight, stepSignatures, calls>>

\* Click on 'Add Step Manually' (updateDisplay and logActivity touch the
\* page only).
ManualStep ==
    /\ steps' = steps + 1
    /\ UNCHANGED <<now, dailyGoal, userWeight, lastPeakTime, stepSignatures,
                   storage, calls>>

\* A goal handler that tests for a number and not for a positive one.
SetGoalAnyNumber(text) ==
    LET newGoal == ParseInt(text)
    IN  IF newGoal # NaN
        THEN /\ dailyGoal' = newGoal
             /\ storage' = SaveSettings(steps, dailyGoal', userWeight)
             /\ UNCHANGED <<now, steps, userWeight, lastPeakTime,
                            stepSignatures, calls>>
        ELSE UNCHANGED vars

\* Click on setGoalBtn with `text` in the dailyGoal field.
SetGoal(text) ==
    LET newGoal == ParseInt(text)
    IN  IF Greater(newGoal, 0)
        THEN /\ dailyGoal' = newGoal
             /\ storage' = SaveSettings(steps, dailyGoal', userWeight)
             /\ UNCHANGED <<now, steps, userWeight, lastPeakTime,
                            stepSignatures, calls>>
        ELSE UNCHANGED vars

\* Click on setWeightBtn with `text` in the userWeight field.
SetWeight(text) ==
    LET newWeight == ParseFloat(text)
    IN  IF Greater(newWeight, 0)
        THEN /\ userWeight' = newWeight
             /\ storage' = SaveSettings(steps, dailyGoal, userWeight')
             /\ UNCHANGED <<now, steps, dailyGoal, lastPeakTime,
                            stepSignatures, calls>>
        ELSE UNCHANGED vars

\* --------------------------------------------------------- specifications
TimePasses == \E t \in Times : Tick(t)

ClockSetBack == \E t \in Times : ClockAdjust(t)

MotionEvent ==
    /\ Len(calls) < MaxSamples
    /\ \E a \in Accels, drift \in 0..MaxDrift :
          /\ now + drift \in Times
          /\ ProcessMotionData(a, drift)

Next == TimePasses \/ MotionEvent

Spec == Init /\ [][Next]_vars

ClockMotionEvent ==
    /\ Len(calls) < MaxClockSamples
    /\ \E a \in FewAccels, drift \in 0..MaxDrift :
          /\ now + drift \in Times
          /\ ProcessMotionData(a, drift)

NextClock == TimePasses \/ ClockSetBack \/ ClockMotionEvent

SpecClock == Init /\ [][NextClock]_vars

RingTimePasses == \E t \in RingTimes : Tick(t)

RingMotionEvent ==
    /\ Len(calls) < MaxRingSamples
    /\ \E a \in FewAccels : ProcessMotionData(a, 0)

NextRing == RingTimePasses \/ RingMotionEvent

SpecRing == InitRing /\ [][NextRing]_vars

MalformedMotionEvent ==
    /\ Len(calls) < MaxMalformedSamples
    /\ \E a \in MalformedAccels : ProcessMotionData(a, 0)

NextMalformed == RingTimePasses \/ MalformedMotionEvent

SpecMalformed == InitRing /\ [][NextMalformed]_vars

AppMotionEvent ==
    /\ Len(calls) < MaxAppSamples
    /\ \E a \in FewAccels : ProcessMotionData(a, 0)

ManualStepClick ==
    /\ steps < MaxSteps
    /\ ManualStep

SetGoalClick == \E text \in InputTexts : SetGoal(text)

SetWeightClick == \E text \in InputTexts : SetWeight(text)

NextApp ==
    \/ RingTimePasses
    \/ AppMotionEvent
    \/ ManualStepClick
    \/ SetGoalClick
    \/ SetWeightClick

SpecApp == InitRing /\ [][NextApp]_vars

TypeOK ==
    /\ now \in Nat
    /\ steps \in Nat
    /\ lastPeakTime \in Nat
    /\ Len(stepSignatures) <= Len(calls)

\* ------------------------------------------------- vocabulary of the claims
Calls == 1..Len(calls)

Min(a, b) == IF a < b THEN a ELSE b

\* magnitude > 9.8, decided on the sample itself: x^2 + y^2 + z^2 > 9.8^2.
Moves(c) ==
    c.x * c.x + c.y * c.y + c.z * c.z > movementThreshold * movementThreshold

\* abs(y) > 6, decided on the sample itself.
Vertical(c) == c.y > verticalThreshold \/ 0 - c.y > verticalThreshold

\* timeSinceLastPeak > cooldown, on the timestamp of the sample and the
\* lastPeakTime the call found.
PastCooldown(c) == c.currentTime - c.peakBefore > stepCooldown

\* ----------------------------------------------------------------------- C1
\* C1: once a sample with timestamp T has been accepted as a step, no later
\* processed sample whose timestamp lies in (T, T + cooldown] is accepted,
\* whatever its x, y, z are.
C1_CooldownEnforced ==
    \A i, j \in Calls :
        ( /\ i < j
          /\ calls[i].stepDetected
          /\ calls[i].currentTime < calls[j].currentTime
          /\ calls[j].currentTime <= calls[i].currentTime + stepCooldown )
        => ~calls[j].stepDetected

\* A full step signature arrives exactly T + cooldown after an accepted step.
C1_Witness ==
    \E i, j \in Calls :
        /\ i < j
        /\ calls[i].stepDetected
        /\ calls[j].currentTime = calls[i].currentTime + stepCooldown
        /\ Moves(calls[j])
        /\ Vertical(calls[j])
        /\ ~calls[j].stepDetected

\* ----------------------------------------------------------------------- C2
\* C2: a processed sample is accepted as a step (the step count grows by one)
\* if and only if its confidence is strictly greater than confidenceThreshold
\* and timeSinceLastPeak is strictly greater than the cooldown; otherwise the
\* step count does not change.
C2_DecisionRule ==
    [][ calls' # calls =>
          LET confidence == Last(stepSignatures').confidence
              accept == /\ confidence > confidenceThreshold
                        /\ now - lastPeakTime > stepCooldown
          IN  steps' = IF accept THEN steps + 1 ELSE steps ]_vars

\* A sample whose confidence equals the threshold, past the cooldown, was
\* rejected.
C2_Witness ==
    /\ calls # <<>>
    /\ Last(calls).signature.confidence = confidenceThreshold
    /\ PastCooldown(Last(calls))
    /\ ~Last(calls).stepDetected
    /\ lastPeakTime = Last(calls).peakBefore

\* ----------------------------------------------------------------------- C3
\* C3: on every accepted step lastPeakTimestamp is set to the timestamp of
\* the accepted sample, so after an acceptance it equals the timestamp of
\* the newest history entry.
C3_PeakIsSampleTimestamp ==
    (calls # <<>> /\ Last(calls).stepDetected)
        => lastPeakTime = Last(stepSignatures).timestamp

\* ----------------------------------------------------------------------- C4
\* C4: on the first processed sample validInterval is true for every
\* timestamp, so the interval weight always contributes to its confidence.
C4_FirstSampleArmed ==
    calls # <<>> =>
        calls[1].signature.confidence =
            wInterval
          + (IF Moves(calls[1]) THEN wMovement ELSE 0)
          + (IF Vertical(calls[1]) THEN wVertical ELSE 0)

\* ----------------------------------------------------------------------- C5
\* C5 as stated: the history never holds more than 10 entries at any point,
\* the point right after the new entry is appended included.
C5_NeverEleven ==
    /\ Len(stepSignatures) <= historyLimit
    /\ \A i \in Calls : calls[i].lengthAfterPush <= historyLimit

\* C5 amended: in every reachable state the history holds at most 10
\* entries; on a full history the new entry is appended first and the oldest
\* is evicted after it, so inside detectStep the array holds 11 entries and
\* never more.
C5_HistoryBounded ==
    /\ Len(stepSignatures) <= historyLimit
    /\ \A i \in Calls :
          calls[i].lengthAfterPush = Min(i, historyLimit + 1)

\* An eleventh sample has been processed on a full history.
C5_Witness ==
    /\ Len(calls) > historyLimit
    /\ Last(calls).lengthAfterPush = historyLimit + 1
    /\ Len(stepSignatures) = historyLimit

\* ----------------------------------------------------------------------- C6
\* C6: after N processed samples the history holds the signatures of the
\* min(N, 10) most recently processed samples, oldest first: exactly 10
\* entries once N >= 10, all N before.
C6_LastTenInOrder ==
    LET n == Len(calls)
        m == Min(n, historyLimit)
    IN  /\ Len(stepSignatures) = m
        /\ \A k \in 1..m :
              /\ stepSignatures[k] = calls[n - m + k].signature
              /\ stepSignatures[k].timestamp = calls[n - m + k].currentTime

\* More than 10 samples were processed, and the evicted one differs from the
\* one that took its place at the head and from the newest.
C6_Witness ==
    /\ Len(calls) > historyLimit
    /\ calls[1].signature # stepSignatures[1]
    /\ calls[1].signature # Last(stepSignatures)
    /\ stepSignatures[1] # Last(stepSignatures)

\* ----------------------------------------------------------------------- C7
\* C7: a rejected sample (step count unchanged) leaves lastPeakTime
\* unchanged, lastPeakTime changes on no step other than an acceptance, and
\* every processed sample adds exactly one entry, its own, at the end of the
\* history.
C7_FrameOfProcess ==
    [][ /\ lastPeakTime' # lastPeakTime => (calls' # calls /\ steps' = steps + 1)
        /\ calls' # calls =>
              /\ steps' = steps => lastPeakTime' = lastPeakTime
              /\ stepSignatures' # <<>>
              /\ Last(stepSignatures').timestamp = now
              /\ LET pushed == Append(stepSignatures, Last(stepSignatures'))
                 IN  stepSignatures' = pushed \/ stepSignatures' = Tail(pushed)
        /\ calls' = calls => stepSignatures' = stepSignatures ]_vars

\* A sample was rejected inside the cooldown of an accepted step, and both
\* are in the history.
C7_Witness ==
    /\ Len(calls) = 2
    /\ calls[1].stepDetected
    /\ ~calls[2].stepDetected
    /\ lastPeakTime > 0
    /\ Len(stepSignatures) = 2
    /\ calls[2].signature.confidence = 0

\* ----------------------------------------------------------------------- C8
\* C8: confidence = 0.4*[magnitude > 9.8] + 0.3*[timeSinceLastPeak > cooldown]
\* + 0.3*[abs(y) > 6] for every processed sample, so every confidence in the
\* history is one of 0, 0.3, 0.4, 0.6, 0.7, 1.0.
C8_ConfidenceFormula ==
    /\ \A i \in Calls :
          calls[i].signature.confidence =
              (IF Moves(calls[i]) THEN 4 ELSE 0)
            + (IF PastCooldown(calls[i]) THEN 3 ELSE 0)
            + (IF Vertical(calls[i]) THEN 3 ELSE 0)
    /\ \A k \in 1..Len(stepSignatures) :
          stepSignatures[k].confidence \in {0, 3, 4, 6, 7, 10}

\* The history holds a 0.6 (interval and vertical) and a 0.4 (movement alone,
\* inside the cooldown).
C8_Witness ==
    \E k, l \in 1..Len(stepSignatures) :
        /\ stepSignatures[k].confidence = 6
        /\ stepSignatures[l].confidence = 4

C10_WeakSampleRejected ==
    /\ wInterval <= confidenceThreshold
    /\ \A i \in Calls :
          (~Moves(calls[i]) /\ ~Vertical(calls[i]))
          => /\ calls[i].signature.confidence <= wInterval
             /\ ~calls[i].stepDetected

\* A sample on the movement threshold, past the cooldown of an accepted step,
\* scored exactly wInterval and was rejected.
C10_Witness ==
    \E i \in Calls :
        /\ ~Moves(calls[i])
        /\ ~Vertical(calls[i])
        /\ calls[i].peakBefore > 0
        /\ calls[i].signature.confidence = wInterval
        /\ ~calls[i].stepDetected

\* ---------------------------------------------------------------------- C11
\* Histories other than the one the state holds: none, the same without its
\* oldest entry, the same twice over, and a single foreign entry.
OtherHistories ==
    { <<>>,
      stepSignatures \o stepSignatures,
      IF stepSignatures = <<>> THEN <<>> ELSE Tail(stepSignatures),
      << [magnitude |-> 1, verticalMovement |-> 1, confidence |-> 0,
          timestamp |-> now] >> }

\* C11: for two classifier states with the same lastPeakTime and different
\* signature histories, processing the same sample yields the same
\* confidence and the same accept/reject decision.
C11_HistoryIndependent ==
    \A a \in Accels, h \in OtherHistories :
        LET here == DetectStep(a[1], a[2], a[3], now, lastPeakTime,
                               stepSignatures)
            there == DetectStep(a[1], a[2], a[3], now, lastPeakTime, h)
        IN  /\ here.signature.confidence = there.signature.confidence
            /\ here.stepDetected = there.stepDetected

\* The history holds a sample processed at this very instant, no step was
\* accepted yet and the cooldown since 0 is over: a full step signature is
\* accepted now, over this history and over the empty one.
C11_Witness ==
    /\ stepSignatures # <<>>
    /\ Last(stepSignatures).timestamp = now
    /\ lastPeakTime = 0
    /\ now > stepCooldown
    /\ DetectStep(0, 100, 99, now, lastPeakTime, stepSignatures).stepDetected
    /\ DetectStep(0, 100, 99, now, lastPeakTime, <<>>).stepDetected

\* ---------------------------------------------------------------------- C12
\* C12: each processed sample grows the step count by exactly 1 when it is
\* accepted and by 0 when it is rejected, and nothing else changes the count
\* in a run of motion samples.
C12_ZeroOrOneStep ==
    [][ steps' = steps + (IF calls' # calls /\ Last(calls').stepDetected
                          THEN 1 ELSE 0) ]_vars

\* Two samples were processed, one accepted and one rejected, and the count
\* grew by one over what was loaded.
C12_Witness ==
    /\ Len(calls) = 2
    /\ calls[1].stepDetected
    /\ ~calls[2].stepDetected
    /\ storage # <<>>
    /\ steps = storage[1].steps
    /\ steps \in {1, 6}

\* ---------------------------------------------------------------------- C13
\* C13: a sample whose timestamp precedes lastPeakTime is rejected: the
\* interval term is not added to its confidence, lastPeakTime and the step
\* count stay as they are, and its signature is appended to the history.
C13_OutOfOrderRejected ==
    [][ (calls' # calls /\ now < lastPeakTime) =>
          /\ lastPeakTime' = lastPeakTime
          /\ steps' = steps
          /\ ~Last(calls').stepDetected
          /\ stepSignatures' # <<>>
          /\ Last(stepSignatures').timestamp = now
          /\ Last(stepSignatures').confidence \in {0, 3, 4, 7}
          /\ LET pushed == Append(stepSignatures, Last(stepSignatures'))
             IN  stepSignatures' = pushed \/ stepSignatures' = Tail(pushed) ]_vars

\* A full step signature arrived more than a cooldown before the recorded
\* peak and was rejected with 0.7.
C13_Witness ==
    /\ calls # <<>>
    /\ Last(calls).currentTime + stepCooldown < Last(calls).peakBefore
    /\ Last(calls).signature.confidence = 7
    /\ ~Last(calls).stepDetected
    /\ lastPeakTime = Last(calls).peakBefore

\* ---------------------------------------------------------------------- C14
NonFinite(c) ==
    \E v \in {c.x, c.y, c.z} : v = NaN \/ v = Infinity \/ v = 0 - Infinity

\* C14: a sample in which x, y or z is NaN, +Infinity or -Infinity is never
\* accepted as a step, and the sample after it finds the classifier as an
\* ordinary rejected sample would have left it.
C14_MalformedNeverAccepted ==
    \A i \in Calls :
        NonFinite(calls[i]) =>
            /\ ~calls[i].stepDetected
            /\ i < Len(calls) => calls[i + 1].peakBefore = calls[i].peakBefore

\* ---------------------------------------------------------------------- C15
Finite(v) == v # NaN /\ v # Infinity /\ v # 0 - Infinity

\* A configuration with a non-finite threshold, or a confidenceThreshold
\* outside [0, 1].
InvalidConfig(config) ==
    /\ config # NoConfig
    /\ \/ ~Finite(config[1].stepCooldown)
       \/ ~Finite(config[1].confidenceThreshold)
       \/ config[1].confidenceThreshold < 0
       \/ config[1].confidenceThreshold > 10

\* The tracker stands as `new PrecisionStepTracker(config)` leaves it: the
\* constructor did not throw and the detection state is the one it built.
ConstructedWith(config) ==
    /\ ~Constructor(config).threw
    /\ calls = <<>>
    /\ lastPeakTime = Constructor(config).detectionState.lastPeakTime
    /\ stepSignatures = Constructor(config).detectionState.stepSignatures

\* C15: constructing the classifier with a non-finite threshold or with a
\* confidenceThreshold outside [0, 1] fails with InvalidConfig, so no
\* tracker is ever left standing by such a construction.
C15_InvalidConfigFails ==
    \A config \in Configs : InvalidConfig(config) => ~ConstructedWith(config)

\* ---------------------------------------------------------------------- C16
\* C16: with the weights 0.4, 0.3, 0.3 and the threshold 0.7 a confidence
\* above the threshold already implies validInterval; a sample is accepted
\* if and only if magnitude > 9.8, timeSinceLastPeak > cooldown and
\* abs(y) > 6 are all true, that is iff its confidence is 1.0; and a sample
\* inside the cooldown scores at most 0.7 and fails the confidence test.
C16_GateRedundant ==
    \A i \in Calls :
        LET c == calls[i]
            confidence == c.signature.confidence
        IN  /\ confidence > confidenceThreshold => PastCooldown(c)
            /\ c.stepDetected <=> (Moves(c) /\ PastCooldown(c) /\ Vertical(c))
            /\ c.stepDetected <=> confidence = 10
            /\ c.stepDetected <=> confidence > confidenceThreshold
            /\ ~PastCooldown(c) => confidence <= confidenceThreshold

\* A full step signature arrived inside the cooldown of an accepted step: it
\* scored exactly 0.7 and was rejected.
C16_Witness ==
    \E i, j \in Calls :
        /\ i < j
        /\ calls[i].stepDetected
        /\ calls[i].signature.confidence = 10
        /\ Moves(calls[j])
        /\ Vertical(calls[j])
        /\ ~PastCooldown(calls[j])
        /\ calls[j].currentTime >= calls[j].peakBefore
        /\ calls[j].signature.confidence = confidenceThreshold
        /\ ~calls[j].stepDetected

\* ---------------------------------------------------------------------- C17
\* A step in which the count changes and no motion sample is processed: a
\* click on 'Add Step Manually'.
ManualStepTaken == steps' # steps /\ calls' = calls

\* The lastPeakTime that call i left behind: what the next call found, or
\* what the state holds after the last call.
PeakAfter(i) ==
    IF i = Len(calls) THEN lastPeakTime ELSE calls[i + 1].peakBefore

\* C17: a manual step increments the step count by exactly 1 and leaves
\* lastPeakTime and the signature history unchanged; so manual steps never
\* start a cooldown, and wherever they are interleaved every motion sample
\* meets the lastPeakTime the motion samples before it left and is accepted
\* or rejected on that alone.
C17_ManualStepFrame ==
    /\ [][ ManualStepTaken =>
             /\ steps' = steps + 1
             /\ lastPeakTime' = lastPeakTime
             /\ stepSignatures' = stepSignatures ]_vars
    /\ [](\A i \in Calls :
             /\ i = 1 => calls[i].peakBefore = 0
             /\ IF calls[i].stepDetected
                THEN PeakAfter(i) >= calls[i].currentTime
                ELSE PeakAfter(i) = calls[i].peakBefore
             /\ calls[i].stepDetected <=>
                    (Moves(calls[i]) /\ Vertical(calls[i])
                     /\ PastCooldown(calls[i])))

\* Manual steps were added (the count exceeds the accepted samples), a
\* sample was accepted past the cooldown since 0 and a full step signature
\* after it was rejected inside its cooldown.
C17_Witness ==
    /\ Len(calls) = 2
    /\ calls[1].stepDetected
    /\ Moves(calls[2])
    /\ Vertical(calls[2])
    /\ ~calls[2].stepDetected
    /\ steps = 3
    /\ storage # <<>>
    /\ storage[1].steps = 2
    /\ lastPeakTime = calls[1].currentTime

\* ---------------------------------------------------------------------- C18
\* C18: the persisted step count never exceeds the in-memory one; every
\* write leaves it equal to the in-memory count; every detected step and
\* every goal or weight change writes; a manual step does not.
C18_PersistedSteps ==
    /\ [](storage # <<>> => storage[1].steps <= steps)
    /\ [][ /\ storage' # storage =>
                storage' = << [steps |-> steps', dailyGoal |-> dailyGoal',
                               userWeight |-> userWeight'] >>
           /\ (calls' # calls /\ Last(calls').stepDetected) =>
                (storage' # <<>> /\ storage'[1].steps = steps')
           /\ (dailyGoal' # dailyGoal \/ userWeight' # userWeight) =>
                (storage' # <<>> /\ storage'[1].steps = steps')
           /\ ManualStepTaken => storage' = storage ]_vars

\* A goal was set and saved, and a manual step after it left the persisted
\* count one behind.
C18_Witness ==
    /\ storage # <<>>
    /\ storage[1].dailyGoal # defaultDailyGoal
    /\ storage[1].steps > 0
    /\ storage[1].steps + 1 = steps

\* ---------------------------------------------------------------------- C19
\* C19: dailyGoal and userWeight are numbers > 0 in every reachable state,
\* in memory and in what is persisted; a step that changes either one
\* changes it to a value > 0 and alters neither the step count nor the
\* detection state; and nothing is persisted except by a detected step or
\* by a field set from a text whose value is > 0.
C19_PositiveSettings ==
    /\ [](/\ Greater(dailyGoal, 0)
          /\ Greater(userWeight, 0)
          /\ storage # <<>> => /\ Greater(storage[1].dailyGoal, 0)
                               /\ Greater(storage[1].userWeight, 0))
    /\ [][ (dailyGoal' # dailyGoal \/ userWeight' # userWeight) =>
             /\ Greater(dailyGoal', 0)
             /\ Greater(userWeight', 0)
             /\ steps' = steps
             /\ lastPeakTime' = lastPeakTime
             /\ stepSignatures' = stepSignatures
             /\ calls' = calls ]_vars
    /\ [][ storage' # storage =>
             \/ calls' # calls
             \/ \E text \in InputTexts :
                   /\ Greater(ParseInt(text), 0)
                   /\ dailyGoal' = ParseInt(text)
                   /\ userWeight' = userWeight
             \/ \E text \in InputTexts :
                   /\ Greater(ParseFloat(text), 0)
                   /\ userWeight' = ParseFloat(text)
                   /\ dailyGoal' = dailyGoal ]_vars

\* Both fields were set from the text "1e3" (goal 1, weight 1000) after a
\* step was counted.
C19_Witness ==
    /\ dailyGoal = ParseInt("1e3")
    /\ userWeight = ParseFloat("1e3")
    /\ dailyGoal # userWeight
    /\ steps > 0
    /\ lastPeakTime > 0
    /\ storage = SaveSettings(steps, dailyGoal, userWeight)

====
